---------------------------- MODULE Spec2Model ----------------------------
(***************************************************************************)
(* A model of penrose.js: the Penrose P3 tiling engine (class PenroseP3),   *)
(* its Robinson triangles (BtileL, BtileS) and its planar points (Complex). *)
(*                                                                         *)
(* Numbers.  The program computes with IEEE doubles.  Every real number of  *)
(* the model is an element a + b*psi of the ring Z[psi], psi = (sqrt(5)-1)/2*)
(* (psi*psi = 1 - psi), written <<a, b>> and counted in units of 4e-6, so   *)
(* that the tolerance TOL = 1e-5 is 5/2 units.  Sums, differences, products *)
(* by psi and psi2 and the comparisons against TOL are exact in this ring;  *)
(* the doubles of the program differ from them by rounding errors of the    *)
(* order 1e-16, far below the distance of any model value to a comparison   *)
(* threshold.  Vertex coordinates are even numbers of units, which makes    *)
(* the halvings of middle() and of the arc radius exact.                    *)
(*                                                                         *)
(* Objects.  JavaScript arrays and tiles are objects reached by reference.  *)
(* heap holds the tile objects, arrays the array objects (sequences of tile *)
(* references), and an engine's this.elements is a reference to an array.   *)
(***************************************************************************)
EXTENDS Integers, Sequences, FiniteSets, TLC

\* ------------------------------------------------------------------------
\* Real numbers a + b*psi, in units of 4e-6
\* ------------------------------------------------------------------------

Zero == <<0, 0>>

NAdd(x, y) == <<x[1] + y[1], x[2] + y[2]>>

NSub(x, y) == <<x[1] - y[1], x[2] - y[2]>>

NNeg(x) == <<-x[1], -x[2]>>

NScale(k, x) == <<k * x[1], k * x[2]>>

\* (a + b psi)(c + d psi) = ac + bd + (ad + bc - bd) psi
NMul(x, y) ==
  <<x[1] * y[1] + x[2] * y[2], x[1] * y[2] + x[2] * y[1] - x[2] * y[2]>>

\* exact halving of an even number of units
NHalf(x) == <<x[1] \div 2, x[2] \div 2>>

Abs(n) == IF n < 0 THEN -n ELSE n

Sgn(n) == IF n < 0 THEN -1 ELSE IF n > 0 THEN 1 ELSE 0

\* The order of the positive rational m/n against the quadratic irrational
\* [k; 4, 4, 4, ...] (k = 2: sqrt(5); k = 4: 2 + sqrt(5)), by the continued
\* fraction of m/n: 1 when m/n is the larger, -1 when it is the smaller.
RECURSIVE CmpCF(_, _, _)
CmpCF(m, n, k) ==
  LET q == m \div n
      r == m % n
  IN  IF q < k THEN -1
      ELSE IF q > k THEN 1
      ELSE IF r = 0 THEN -1
      ELSE -CmpCF(n, r, 4)

\* The sign of a + b*psi = ((2a - b) + b*sqrt(5)) / 2.
Sign(x) ==
  LET m == 2 * x[1] - x[2]
      n == x[2]
  IN  IF n = 0 THEN Sgn(m)
      ELSE IF m = 0 THEN Sgn(n)
      ELSE IF Sgn(m) = Sgn(n) THEN Sgn(m)
      ELSE IF CmpCF(Abs(m), Abs(n), 2) > 0 THEN Sgn(m) ELSE Sgn(n)

\* psi = (Math.sqrt(5) - 1) / 2 and psi2 = 1 - psi
psi == <<0, 1>>

psi2 == NSub(<<1, 0>>, psi)

\* TOL = 1.e-5 is TolHalves / 2 units of 4e-6
TolHalves == 5

\* Math.abs(x) < TOL
AbsLtTOL(x) ==
  /\ Sign(<<2 * x[1] - TolHalves, 2 * x[2]>>) < 0
  /\ Sign(<<2 * x[1] + TolHalves, 2 * x[2]>>) > 0

\* ------------------------------------------------------------------------
\* class Complex
\* ------------------------------------------------------------------------

Complex(re, im) == [real |-> re, imag |-> im]

plus(a, b) == Complex(NAdd(a.real, b.real), NAdd(a.imag, b.imag))

minus(a, b) == Complex(NSub(a.real, b.real), NSub(a.imag, b.imag))

neg(a) == Complex(NNeg(a.real), NNeg(a.imag))

\* mult(c) with a finite number c
mult_number(a, c) == Complex(NMul(a.real, c), NMul(a.imag, c))

\* mult(c) with a Complex c
mult(a, c) ==
  Complex(NSub(NMul(a.real, c.real), NMul(a.imag, c.imag)),
          NAdd(NMul(a.real, c.imag), NMul(a.imag, c.real)))

\* div(2), the only division the engine performs
div2(a) == Complex(NHalf(a.real), NHalf(a.imag))

cross(a, b) == NSub(NMul(a.real, b.imag), NMul(a.imag, b.real))

middle(a, b) == div2(plus(a, b))

\* the square of abs(), which decides every use the engine makes of abs()
abs_squared(a) == NAdd(NMul(a.real, a.real), NMul(a.imag, a.imag))

\* abs() < TOL: 4 |a|^2 < TolHalves^2 (both coordinates are tested first,
\* which keeps the squares small)
abs_lt_TOL(a) ==
  /\ AbsLtTOL(a.real)
  /\ AbsLtTOL(a.imag)
  /\ Sign(NSub(NScale(4, abs_squared(a)), <<TolHalves * TolHalves, 0>>)) < 0

conjugate(a) == Complex(a.real, NNeg(a.imag))

\* ------------------------------------------------------------------------
\* Number formatting and the SVG path helpers
\* ------------------------------------------------------------------------

\* the largest n with 2n <= p[1] + p[2]*psi, found from the estimate n
RECURSIVE FloorHalfFrom(_, _)
FloorHalfFrom(p, n) ==
  IF Sign(<<p[1] - 2 * n, p[2]>>) < 0 THEN FloorHalfFrom(p, n - 1)
  ELSE IF Sign(<<p[1] - 2 * (n + 1), p[2]>>) >= 0 THEN FloorHalfFrom(p, n + 1)
  ELSE n

FloorHalf(p) ==
  LET k   == p[2] \div 1000
      est == k * 618 + (k * 34) \div 1000 + ((p[2] % 1000) * 618) \div 1000
  IN  FloorHalfFrom(p, (p[1] + est) \div 2)

\* Number.prototype.toFixed(6) of x units of 4e-6: the sign, and the
\* millionths |x| rounds to (the nearest integer to 4|x|; no tie occurs,
\* 8|x| + 1 being odd or irrational)
toFixed6(x) ==
  LET y == IF Sign(x) < 0 THEN NNeg(x) ELSE x
  IN  [minus |-> Sign(x) < 0,
       millionths |-> FloorHalf(<<8 * y[1] + 1, 8 * y[2]>>)]

Fixed(p) == <<toFixed6(p.real), toFixed6(p.imag)>>

\* line(first, ...arg): "m<first> l<p> l<p> ... z"
line(first, arg) ==
  [m |-> Fixed(first), l |-> [k \in 1..Len(arg) |-> Fixed(arg[k])]]

\* arc(start, r, end): "M <start> A r r 0 0 0 <end>"; the radius r is
\* printed in full, and is given here by its square
arc(start, r2, end) == [M |-> Fixed(start), r |-> r2, to |-> Fixed(end)]

\* ------------------------------------------------------------------------
\* class RobinsonTriangle and its subclasses BtileL, BtileS
\* ------------------------------------------------------------------------

RobinsonTriangle(cls, A, B, C) == [cls |-> cls, A |-> A, B |-> B, C |-> C]

centre(t) == middle(t.A, t.C)

path(t, rhombus) ==
  LET AB == minus(t.B, t.A)
      BC == minus(t.C, t.B)
  IN  IF rhombus THEN line(t.A, <<AB, BC, neg(AB)>>)
      ELSE line(t.A, <<AB, BC>>)

\* The value thrown by a call of a method that does not exist.  It stands
\* in the place of the value the call would have returned, and make_svg,
\* which catches nothing, throws it on.
TypeError == [threw |-> "TypeError"]

\* get_arc_d(U, V, W, half_arc).  With half_arc the statement
\* end = U.add(...) calls a method class Complex does not have.
get_arc_d(U, V, W, half_arc) ==
  LET start == middle(U, V)
      end   == middle(U, W)
      r2    == abs_squared(div2(minus(V, U)))
      US    == minus(start, U)
      UE    == minus(end, U)
  IN  IF half_arc THEN TypeError
      ELSE IF Sign(cross(US, UE)) > 0 THEN arc(end, r2, start)
      ELSE arc(start, r2, end)

\* arcs(half_arc): [arc1_d, arc2_d]
arcs(t, half_arc) ==
  LET D == plus(minus(t.A, t.B), t.C)
  IN  <<get_arc_d(t.A, t.B, D, half_arc), get_arc_d(t.C, t.B, D, half_arc)>>

\* RobinsonTriangle.conjugate(): a new tile of the same class
conjugate_tile(t) ==
  RobinsonTriangle(t.cls, conjugate(t.A), conjugate(t.B), conjugate(t.C))

BtileL_inflate(t) ==
  LET D == plus(mult_number(t.A, psi2), mult_number(t.C, psi))
      E == plus(mult_number(t.A, psi2), mult_number(t.B, psi))
  IN  <<RobinsonTriangle("BtileL", D, E, t.A),
        RobinsonTriangle("BtileS", E, D, t.B),
        RobinsonTriangle("BtileL", t.C, D, t.B)>>

BtileS_inflate(t) ==
  LET D == plus(mult_number(t.A, psi), mult_number(t.B, psi2))
  IN  <<RobinsonTriangle("BtileS", D, t.C, t.A),
        RobinsonTriangle("BtileL", t.C, D, t.B)>>

\* element.inflate(), dispatched on the class of the tile
tile_inflate(t) ==
  IF t.cls = "BtileL" THEN BtileL_inflate(t) ELSE BtileS_inflate(t)

\* ------------------------------------------------------------------------
\* class PenroseP3, as operations on the object store
\*   s = [heap, arrays, elements]: the tile objects, the array objects and
\*   the array this.elements refers to
\* ------------------------------------------------------------------------

\* the tile references held by this.elements
Elements(s) == s.arrays[s.elements]

\* the tiles of this.elements, by value
Ensemble(s) == [k \in 1..Len(Elements(s)) |-> s.heap[Elements(s)[k]]]

\* references to n objects allocated after the first m
NewRefs(m, n) == [k \in 1..n |-> m + k]

\* new_elements.push(...element.inflate()) for each element in turn
RECURSIVE inflate_each(_, _)
inflate_each(h, ids) ==
  IF ids = <<>> THEN <<>>
  ELSE tile_inflate(h[Head(ids)]) \o inflate_each(h, Tail(ids))

\* An inflate that pushes the children onto this.elements itself: the
\* parents stay in the ensemble.
inflate_appending(s) ==
  LET new_elements == inflate_each(s.heap, Elements(s))
  IN  [heap     |-> s.heap \o new_elements,
       arrays   |-> [s.arrays EXCEPT ![s.elements] =
                       @ \o NewRefs(Len(s.heap), Len(new_elements))],
       elements |-> s.elements]

inflate(s) ==
  LET new_elements == inflate_each(s.heap, Elements(s))
  IN  [heap     |-> s.heap \o new_elements,
       arrays   |-> Append(s.arrays, NewRefs(Len(s.heap), Len(new_elements))),
       elements |-> Len(s.arrays) + 1]

\* the comparator of remove_dupes: its sign
compare(a, b) ==
  LET dreal == NSub(a.center.real, b.center.real)
      dimag == NSub(a.center.imag, b.center.imag)
  IN  IF AbsLtTOL(dreal) /\ AbsLtTOL(dimag) THEN 0
      ELSE IF AbsLtTOL(dreal) THEN Sign(dimag)
      ELSE Sign(dreal)

\* Array.prototype.sort.  The comparator is not a consistent one (it is
\* not transitive), and the order sort() then leaves is implementation
\* defined: the model runs two stable sorts an engine may use, a straight
\* insertion sort and a top-down merge sort.
RECURSIVE insert(_, _)
insert(arr, x) ==
  IF arr = <<>> THEN <<x>>
  ELSE LET last == arr[Len(arr)]
       IN  IF compare(last, x) > 0
             THEN Append(insert(SubSeq(arr, 1, Len(arr) - 1), x), last)
             ELSE Append(arr, x)

RECURSIVE insertion_sort(_)
insertion_sort(arr) ==
  IF arr = <<>> THEN <<>>
  ELSE insert(insertion_sort(SubSeq(arr, 1, Len(arr) - 1)), arr[Len(arr)])

RECURSIVE merge(_, _)
merge(l, r) ==
  IF l = <<>> THEN r
  ELSE IF r = <<>> THEN l
  ELSE IF compare(Head(l), Head(r)) <= 0 THEN <<Head(l)>> \o merge(Tail(l), r)
  ELSE <<Head(r)>> \o merge(l, Tail(r))

RECURSIVE merge_sort(_)
merge_sort(arr) ==
  IF Len(arr) <= 1 THEN arr
  ELSE LET mid == Len(arr) \div 2
       IN  merge(merge_sort(SubSeq(arr, 1, mid)),
                 merge_sort(SubSeq(arr, mid + 1, Len(arr))))

SortImpls == {"insertion", "merge"}

sort(arr, impl) ==
  IF impl = "insertion" THEN insertion_sort(arr) ELSE merge_sort(arr)

\* .map((element, index) => ({index, center: element.centre(), element}))
\* followed by .sort(...): the sorted array of remove_dupes
sorted_items(s, impl) ==
  LET ids == Elements(s)
  IN  sort([k \in 1..Len(ids) |->
              [index |-> k - 1, center |-> centre(s.heap[ids[k]]),
               element |-> ids[k]]], impl)

\* the callback of the second map: null for an item whose centre is within
\* TOL of the centre of the item before it in the sorted array
is_dupe(arr, index) ==
  index > 1 /\ abs_lt_TOL(minus(arr[index].center, arr[index - 1].center))

\* .map(...).filter(Boolean): the elements that are kept, in order
RECURSIVE scan_from(_, _)
scan_from(arr, index) ==
  IF index > Len(arr) THEN <<>>
  ELSE (IF is_dupe(arr, index) THEN <<>> ELSE <<arr[index].element>>)
         \o scan_from(arr, index + 1)

\* A scan that decides each item against the last item it kept, whose
\* place in the sorted array is kept.
RECURSIVE scan_from_kept(_, _, _)
scan_from_kept(arr, index, kept) ==
  IF index > Len(arr) THEN <<>>
  ELSE IF abs_lt_TOL(minus(arr[index].center, arr[kept].center))
    THEN scan_from_kept(arr, index + 1, kept)
  ELSE <<arr[index].element>> \o scan_from_kept(arr, index + 1, index)

scan_previous_kept(arr) ==
  IF arr = <<>> THEN <<>> ELSE <<arr[1].element>> \o scan_from_kept(arr, 2, 1)

scan(arr) == scan_from(arr, 1)

remove_dupes(s, impl) ==
  [heap     |-> s.heap,
   arrays   |-> Append(s.arrays, scan(sorted_items(s, impl))),
   elements |-> Len(s.arrays) + 1]

\* An add_conjugate_elements that pushes copies of the tiles, not their
\* mirror images.
add_conjugate_elements_copying(s) ==
  [heap     |-> s.heap \o Ensemble(s),
   arrays   |-> [s.arrays EXCEPT ![s.elements] =
                   @ \o NewRefs(Len(s.heap), Len(@))],
   elements |-> s.elements]

\* this.elements.push(...this.elements.map(e => e.conjugate())): the array
\* this.elements refers to is extended in place
add_conjugate_elements(s) ==
  LET ids == Elements(s)
      conjugates == [k \in 1..Len(ids) |-> conjugate_tile(s.heap[ids[k]])]
  IN  [heap     |-> s.heap \o conjugates,
       arrays   |-> [s.arrays EXCEPT ![s.elements] =
                       ids \o NewRefs(Len(s.heap), Len(ids))],
       elements |-> s.elements]

\* Angles are whole quarter turns: theta = Quarter * pi / 2.
Cos(theta) == <<CASE theta % 4 = 0 -> 1 [] theta % 4 = 2 -> -1 [] OTHER -> 0, 0>>

Sin(theta) == <<CASE theta % 4 = 1 -> 1 [] theta % 4 = 3 -> -1 [] OTHER -> 0, 0>>

\* the callbacks of the three forEach loops, which assign to the vertices
\* of the tile object e
rotate_tile(e, rot) ==
  [e EXCEPT !.A = mult(rot, e.A), !.B = mult(rot, e.B), !.C = mult(rot, e.C)]

flip_y_vertex(p) == Complex(NNeg(p.real), p.imag)

flip_y_tile(e) ==
  [e EXCEPT !.A = flip_y_vertex(e.A), !.B = flip_y_vertex(e.B),
            !.C = flip_y_vertex(e.C)]

flip_x_tile(e) ==
  [e EXCEPT !.A = conjugate(e.A), !.B = conjugate(e.B), !.C = conjugate(e.C)]

callback(f, e) ==
  CASE f.op = "rotate" -> rotate_tile(e, f.rot)
    [] f.op = "flip_y" -> flip_y_tile(e)
    [] f.op = "flip_x" -> flip_x_tile(e)

\* this.elements.forEach(e => ...): the tile objects are updated in place,
\* one visit for each reference in the array
RECURSIVE forEach(_, _, _)
forEach(h, ids, f) ==
  IF ids = <<>> THEN h
  ELSE forEach([h EXCEPT ![Head(ids)] = callback(f, h[Head(ids)])], Tail(ids), f)

rotate(s, theta) ==
  LET rot == Complex(Cos(theta), Sin(theta))
  IN  [s EXCEPT !.heap = forEach(s.heap, Elements(s), [op |-> "rotate", rot |-> rot])]

flip_y(s) == [s EXCEPT !.heap = forEach(s.heap, Elements(s), [op |-> "flip_y"])]

flip_x(s) == [s EXCEPT !.heap = forEach(s.heap, Elements(s), [op |-> "flip_x"])]

\* ------------------------------------------------------------------------
\* make_tiling
\* ------------------------------------------------------------------------

\* A run r = [s, calls] of make_tiling: the store, and the methods called
\* so far, in the order of the calls.  call(r, method, ...) is the call
\* this.method(...).
call(r, method, theta, impl) ==
  [r EXCEPT
     !.s = CASE method = "inflate" -> inflate(@)
             [] method = "remove_dupes" -> remove_dupes(@, impl)
             [] method = "add_conjugate_elements" -> add_conjugate_elements(@)
             [] method = "rotate" -> rotate(@, theta)
             [] method = "flip_y" -> flip_y(@)
             [] method = "flip_x" -> flip_x(@),
     !.calls = Append(@, method)]

\* the calls of one statement of make_tiling, in order
RECURSIVE call_all(_, _, _, _)
call_all(r, methods, theta, impl) ==
  IF methods = <<>> THEN r
  ELSE call_all(call(r, Head(methods), theta, impl), Tail(methods), theta, impl)

\* A make_tiling that flips about the x-axis before it flips about the
\* y-axis.
make_tiling_flip_x_first(s, ngen, config, impl) ==
  call_all([s |-> s, calls |-> <<>>],
           [i \in 1..ngen |-> "inflate"]
             \o (IF config["draw-rhombuses"] THEN <<"remove_dupes">> ELSE <<>>)
             \o (IF config["reflect-x"]
                   THEN <<"add_conjugate_elements", "remove_dupes">> ELSE <<>>)
             \o (IF config["rotate"] # 0 THEN <<"rotate">> ELSE <<>>)
             \o (IF config["flip-x"] THEN <<"flip_x">> ELSE <<>>)
             \o (IF config["flip-y"] THEN <<"flip_y">> ELSE <<>>),
           config["rotate"], impl)

\* A make_tiling whose loop runs once more than ngen times.
make_tiling_one_more(s, ngen, config, impl) ==
  call_all([s |-> s, calls |-> <<>>],
           [i \in 1..(ngen + 1) |-> "inflate"]
             \o (IF config["draw-rhombuses"] THEN <<"remove_dupes">> ELSE <<>>)
             \o (IF config["reflect-x"]
                   THEN <<"add_conjugate_elements", "remove_dupes">> ELSE <<>>)
             \o (IF config["rotate"] # 0 THEN <<"rotate">> ELSE <<>>)
             \o (IF config["flip-y"] THEN <<"flip_y">> ELSE <<>>)
             \o (IF config["flip-x"] THEN <<"flip_x">> ELSE <<>>),
           config["rotate"], impl)

\* make_tiling(): the inflate loop, and then one statement for each of the
\* options 'draw-rhombuses', 'reflect-x', 'rotate', 'flip-y' and 'flip-x'
make_tiling(s, ngen, config, impl) ==
  LET theta == config["rotate"]
      r0 == call_all([s |-> s, calls |-> <<>>],
                     [i \in 1..ngen |-> "inflate"], theta, impl)
      r1 == call_all(r0, IF config["draw-rhombuses"]
                           THEN <<"remove_dupes">> ELSE <<>>, theta, impl)
      r2 == call_all(r1, IF config["reflect-x"]
                           THEN <<"add_conjugate_elements", "remove_dupes">>
                           ELSE <<>>, theta, impl)
      r3 == call_all(r2, IF theta # 0 THEN <<"rotate">> ELSE <<>>, theta, impl)
      r4 == call_all(r3, IF config["flip-y"] THEN <<"flip_y">> ELSE <<>>,
                     theta, impl)
      r5 == call_all(r4, IF config["flip-x"] THEN <<"flip_x">> ELSE <<>>,
                     theta, impl)
  IN  r5

\* ------------------------------------------------------------------------
\* The constructor and its configuration
\* ------------------------------------------------------------------------

\* a colour option: a colour string, or a function of the tile
ColourString(c) == [fn |-> FALSE, colour |-> c]

ColourFunction == [fn |-> TRUE, colour |-> "function"]

\* 'margin' is counted in hundredths (1.05), 'tile-opacity' in tenths (0.6)
\* and 'base-stroke-width' in units of 4e-6 (0.05)
DefaultMargin == 105

DefaultOpacity == 6

DefaultStrokeWidth == 12500

DefaultConfig ==
  ("width" :> "100%") @@ ("height" :> "100%") @@
  ("stroke-colour" :> "#fff") @@
  ("base-stroke-width" :> DefaultStrokeWidth) @@
  ("margin" :> DefaultMargin) @@
  ("tile-opacity" :> DefaultOpacity) @@
  ("random-tile-colours" :> FALSE) @@
  ("Stile-colour" :> ColourString("#08f")) @@
  ("Ltile-colour" :> ColourString("#0035f3")) @@
  ("Aarc-colour" :> "#f00") @@
  ("Carc-colour" :> "#00f") @@
  ("draw-tiles" :> TRUE) @@
  ("draw-arcs" :> FALSE) @@
  ("reflect-x" :> TRUE) @@
  ("draw-rhombuses" :> TRUE) @@
  ("rotate" :> 0) @@
  ("flip-y" :> FALSE) @@ ("flip-x" :> FALSE)

\* constructor(scale, ngen, config): the fields of the new engine, whose
\* this.elements is the new empty array elements refers to
PenroseP3(scale, ngen, config, elements) ==
  [scale |-> scale, ngen |-> ngen, config |-> config @@ DefaultConfig,
   elements |-> elements]

\* ------------------------------------------------------------------------
\* make_svg
\* ------------------------------------------------------------------------

\* randHex(0, 0xfff) for a value drawn by Math.random(): the draws of the
\* model are the least and the greatest, 0 and 0xffe
RandomDraws == {0, 4094}

randHex(draw) == IF draw = 0 THEN "#0" ELSE "#ffe"

\* a colour function supplied by the caller: here one that tells the
\* tiles left of the y-axis from the others
colour_function(e) == IF Sign(centre(e).real) < 0 THEN "#000" ELSE "#fff"

get_tile_colour(config, e, draw) ==
  IF config["random-tile-colours"] THEN randHex(draw)
  ELSE IF e.cls = "BtileL"
    THEN (IF config["Ltile-colour"].fn THEN colour_function(e)
          ELSE config["Ltile-colour"].colour)
  ELSE (IF config["Stile-colour"].fn THEN colour_function(e)
        ELSE config["Stile-colour"].colour)

RECURSIVE PsiPow(_)
PsiPow(n) == IF n = 0 THEN <<1, 0>> ELSE NMul(psi, PsiPow(n - 1))

\* the path pushed for the tile e when 'draw-tiles' is set
tile_path(config, e, draw) ==
  [fill |-> get_tile_colour(config, e, draw),
   opacity |-> config["tile-opacity"],
   d |-> path(e, config["draw-rhombuses"])]

\* the two paths pushed for the arcs [arc1_d, arc2_d] of a tile
arc_paths(config, arc_ds) ==
  <<[fill |-> "none", stroke |-> config["Aarc-colour"], d |-> arc_ds[1]],
    [fill |-> "none", stroke |-> config["Carc-colour"], d |-> arc_ds[2]]>>

\* what the callback of this.elements.forEach pushes for the tile e
tile_paths(config, e, draw) ==
  (IF config["draw-tiles"] THEN <<tile_path(config, e, draw)>> ELSE <<>>)
    \o (IF config["draw-arcs"]
          THEN arc_paths(config, arcs(e, ~config["draw-rhombuses"]))
          ELSE <<>>)

\* this.elements.forEach(...): the paths pushed, in order
RECURSIVE all_paths(_, _, _)
all_paths(config, tiles, random) ==
  IF tiles = <<>> THEN <<>>
  ELSE tile_paths(config, Head(tiles), Head(random))
         \o all_paths(config, Tail(tiles), Tail(random))

\* the text make_svg returns when its body is the sequence paths, or the
\* exception that ended the loop
svg_text(this, paths) ==
  IF \E k \in 1..Len(paths) : paths[k].d = TypeError THEN TypeError
  ELSE [threw |-> "nothing",
        svg |-> [width |-> this.config["width"],
                 height |-> this.config["height"],
                 viewBox |-> <<-this.scale * this.config["margin"],
                               -this.scale * this.config["margin"],
                               2 * this.scale * this.config["margin"],
                               2 * this.scale * this.config["margin"]>>,
                 stroke |-> this.config["stroke-colour"],
                 stroke_width |->
                   toFixed6(NScale(this.scale * this.config["base-stroke-width"],
                                   PsiPow(this.ngen))),
                 paths |-> paths]]

\* make_svg(): the text returned, or the exception thrown.  random holds
\* one draw of Math.random() for each tile.
make_svg(this, tiles, random) ==
  svg_text(this, all_paths(this.config, tiles, random))

\* ------------------------------------------------------------------------
\* Bounds and inputs
\* ------------------------------------------------------------------------

\* the longest list of seed tiles a caller supplies
MaxSeed == 3

\* the largest ngen an engine is constructed with
MaxGen == 1

\* the number of operations in a run
MaxSteps == 3

\* a growing operation is run only while the ensemble stays this small
MaxTiles == 18

\* the longest list of seed tiles two engines are seeded with
MaxShared == 1

\* the longest list of seed tiles a rendered engine is seeded with
MaxDrawn == 2

\* the scale every engine is constructed with (the default)
Scale == 200

\* the engines
Inst == {1, 2}

\* the quarter turns rotate() is called with
Angles == {1, 3}

Point(x, y) == Complex(<<x, 0>>, <<y, 0>>)

\* The tiles callers build their seed lists from, in units of 4e-6, with
\* centres (0,0), (0,0), (-2,0), (1,-8), (0,2) and (0,4).  Pool[2] is the
\* mirror image of Pool[1]; the centre of Pool[3] is within TOL of that of
\* Pool[1]; the centres of Pool[1], Pool[5], Pool[6] are a chain, each
\* within TOL of the next and the ends further apart.
Pool ==
  <<RobinsonTriangle("BtileL", Point(-4, 0), Point(0, 6), Point(4, 0)),
    RobinsonTriangle("BtileL", Point(-4, 0), Point(0, -6), Point(4, 0)),
    RobinsonTriangle("BtileS", Point(-8, 0), Point(-2, 2), Point(4, 0)),
    RobinsonTriangle("BtileL", Point(-2, -8), Point(2, -2), Point(4, -8)),
    RobinsonTriangle("BtileS", Point(-6, 2), Point(0, 4), Point(6, 2)),
    RobinsonTriangle("BtileL", Point(-4, 4), Point(0, 10), Point(4, 4))>>

\* the seed lists: at most MaxSeed tiles of the pool, in the order of the
\* pool
SeedLists ==
  {[k \in 1..Cardinality(c) |->
      Pool[CHOOSE i \in c : Cardinality({j \in c : j < i}) = k - 1]] :
     c \in {d \in SUBSET (1..Len(Pool)) : Cardinality(d) <= MaxSeed}}

Booleans == {TRUE, FALSE}

\* the options make_tiling reads, in every combination
BuildConfigs ==
  {("draw-rhombuses" :> dr) @@ ("reflect-x" :> rx) @@ ("rotate" :> th) @@
   ("flip-y" :> fy) @@ ("flip-x" :> fx) :
     dr \in Booleans, rx \in Booleans, th \in {0, 1},
     fy \in Booleans, fx \in Booleans}

\* the options make_svg branches on, in every combination
RenderConfigs ==
  {("draw-tiles" :> dt) @@ ("draw-arcs" :> da) @@ ("draw-rhombuses" :> dr) @@
   ("random-tile-colours" :> rc) @@ ("Ltile-colour" :> lc) :
     dt \in Booleans, da \in Booleans, dr \in Booleans, rc \in Booleans,
     lc \in {ColourString("#0035f3"), ColourFunction}}

\* two configurations for engines that share a seed list
SharedConfigs ==
  {<<>>, ("draw-rhombuses" :> FALSE) @@ ("flip-x" :> TRUE)}

\* ------------------------------------------------------------------------
\* State
\* ------------------------------------------------------------------------

VARIABLES
  heap,      \* the tile objects: heap[r] is the tile the reference r names
  arrays,    \* the array objects: arrays[a] is a sequence of references
  engine,    \* engine[i]: the fields scale, ngen, config, elements of engine i
  tiles,     \* the caller's list of seed tiles: a reference to an array
  svg,       \* svg[i]: what the last make_svg() of engine i returned or threw
  calls,     \* the methods the last make_tiling() called, in order
  sorted,    \* the sorted array of the last remove_dupes()
  sortImpl,  \* the sort of the JavaScript engine the program runs on
  last,      \* the last operation: its name and its engine
  pre,       \* the ensembles, lists and outputs before the last operation
  pre2,      \* the ensemble of the last engine before the operation before
  steps      \* the number of operations so far

vars ==
  <<heap, arrays, engine, tiles, svg, calls, sorted, sortImpl, last, pre,
    pre2, steps>>

\* the store as engine i sees it
Store(i) == [heap |-> heap, arrays |-> arrays, elements |-> engine[i].elements]

\* what can be observed of the engines and of the caller's list, and the
\* operation that led here
Snapshot ==
  [ensemble |-> [i \in Inst |-> Ensemble(Store(i))],
   refs     |-> [i \in Inst |-> Elements(Store(i))],
   config   |-> [i \in Inst |-> engine[i].config],
   list     |-> [k \in 1..Len(arrays[tiles]) |-> heap[arrays[tiles][k]]],
   svg      |-> svg,
   op       |-> last.op,
   inst     |-> last.inst]

NotCalled == [threw |-> "not called"]

\* The state after the caller has built its list of seed tiles and both
\* engines have been constructed.
InitWith(Configs, Gens, Seeds, Impls) ==
  /\ \E seed \in Seeds :
       /\ heap = seed
       /\ arrays = << <<>>, <<>>, NewRefs(0, Len(seed)) >>
  /\ tiles = 3
  /\ \E config \in Configs, ngen \in Gens :
       engine = [i \in Inst |-> PenroseP3(Scale, ngen, config, i)]
  /\ svg = [i \in Inst |-> NotCalled]
  /\ calls = <<>>
  /\ sorted = <<>>
  /\ sortImpl \in Impls
  /\ last = [op |-> "constructor", inst |-> 0]
  /\ pre = [Snapshot EXCEPT !.op = "none"]
  /\ pre2 = [op |-> "none", inst |-> 0, ensemble |-> <<>>]
  /\ steps = 0

\* the bookkeeping of an operation op of engine i that leaves the store s
Done(i, op, s) ==
  /\ steps < MaxSteps
  /\ Len(Elements(s)) <= MaxTiles
  /\ heap' = s.heap
  /\ arrays' = s.arrays
  /\ engine' = [engine EXCEPT ![i].elements = s.elements]
  /\ last' = [op |-> op, inst |-> i]
  /\ pre' = Snapshot
  /\ pre2' = [op |-> pre.op, inst |-> pre.inst, ensemble |-> pre.ensemble[i]]
  /\ steps' = steps + 1
  /\ UNCHANGED <<tiles, sortImpl>>

\* ------------------------------------------------------------------------
\* Operations
\* ------------------------------------------------------------------------

\* set_initial_tiles(tiles), called with the caller's list
SetInitialTiles(i) ==
  /\ Done(i, "set_initial_tiles", [Store(i) EXCEPT !.elements = tiles])
  /\ UNCHANGED <<svg, calls, sorted>>

Inflate(i) ==
  /\ 3 * Len(Elements(Store(i))) <= MaxTiles
  /\ Done(i, "inflate", inflate(Store(i)))
  /\ UNCHANGED <<svg, calls, sorted>>

RemoveDupes(i) ==
  /\ Done(i, "remove_dupes", remove_dupes(Store(i), sortImpl))
  /\ sorted' = sorted_items(Store(i), sortImpl)
  /\ UNCHANGED <<svg, calls>>

AddConjugateElements(i) ==
  /\ 2 * Len(Elements(Store(i))) <= MaxTiles
  /\ Done(i, "add_conjugate_elements", add_conjugate_elements(Store(i)))
  /\ UNCHANGED <<svg, calls, sorted>>

Rotate(i) ==
  \E theta \in Angles :
    /\ Done(i, "rotate", rotate(Store(i), theta))
    /\ UNCHANGED <<svg, calls, sorted>>

FlipY(i) ==
  /\ Done(i, "flip_y", flip_y(Store(i)))
  /\ UNCHANGED <<svg, calls, sorted>>

FlipX(i) ==
  /\ Done(i, "flip_x", flip_x(Store(i)))
  /\ UNCHANGED <<svg, calls, sorted>>

RECURSIVE Pow3(_)
Pow3(n) == IF n = 0 THEN 1 ELSE 3 * Pow3(n - 1)

MakeTiling(i) ==
  /\ 2 * Pow3(engine[i].ngen) * Len(Elements(Store(i))) <= MaxTiles
  /\ \E r \in {make_tiling(Store(i), engine[i].ngen, engine[i].config,
                            sortImpl)} :
       /\ Done(i, "make_tiling", r.s)
       /\ calls' = r.calls
  /\ UNCHANGED <<svg, sorted>>

\* A make_svg that renders the mirror image by flipping the tiles it draws.
MakeSvgFlipping(i) ==
  /\ svg' = [svg EXCEPT ![i] =
               make_svg(engine[i], Ensemble(flip_x(Store(i))),
                        [k \in 1..Len(Elements(Store(i))) |-> 0])]
  /\ Done(i, "make_svg", flip_x(Store(i)))
  /\ UNCHANGED <<calls, sorted>>

\* make_svg(); Math.random() is drawn once for each tile when the colours
\* are random
MakeSvg(i) ==
  LET n == Len(Elements(Store(i)))
      draws == IF engine[i].config["random-tile-colours"]
                    /\ engine[i].config["draw-tiles"]
                 THEN [1..n -> RandomDraws] ELSE {[k \in 1..n |-> 0]}
  IN  \E random \in draws :
        /\ svg' = [svg EXCEPT ![i] = make_svg(engine[i], Ensemble(Store(i)), random)]
        /\ Done(i, "make_svg", Store(i))
        /\ UNCHANGED <<calls, sorted>>

\* ------------------------------------------------------------------------
\* Specifications
\* ------------------------------------------------------------------------

\* One engine, default configuration, the operations called one by one.
Init == InitWith({<<>>}, {0}, SeedLists, SortImpls)

Next ==
  \/ SetInitialTiles(1)
  \/ Inflate(1)
  \/ RemoveDupes(1)
  \/ AddConjugateElements(1)
  \/ Rotate(1)
  \/ FlipY(1)
  \/ FlipX(1)

Spec == Init /\ [][Next]_vars

\* One engine, every configuration of make_tiling, seeded and built.
InitBuild == InitWith(BuildConfigs, 0..MaxGen, SeedLists, SortImpls)

NextBuild ==
  \/ SetInitialTiles(1)
  \/ MakeTiling(1)

SpecBuild == InitBuild /\ [][NextBuild]_vars

\* the seed lists of a rendered engine: at most MaxDrawn of two Large
\* tiles and a Small one
RenderSeeds ==
  {l \in SeedLists :
     Len(l) <= MaxDrawn /\ \A k \in 1..Len(l) : l[k] \in {Pool[1], Pool[3], Pool[4]}}

\* One engine, every configuration of make_svg, seeded and rendered.  No
\* operation of this specification sorts.
InitRender == InitWith(RenderConfigs, {0}, RenderSeeds, {"insertion"})

NextRender ==
  \/ SetInitialTiles(1)
  \/ MakeSvg(1)

SpecRender == InitRender /\ [][NextRender]_vars

\* Two engines seeded by one caller with one list of at most MaxShared
\* tiles, whose centres are far apart: the sorts agree on them.
InitShared ==
  InitWith(SharedConfigs, {0}, {l \in SeedLists : Len(l) <= MaxShared},
           {"insertion"})

NextShared ==
  \E i \in Inst :
    \/ SetInitialTiles(i)
    \/ Inflate(i)
    \/ RemoveDupes(i)
    \/ AddConjugateElements(i)
    \/ Rotate(i)
    \/ FlipY(i)
    \/ FlipX(i)
    \/ MakeTiling(i)
    \/ MakeSvg(i)

SpecShared == InitShared /\ [][NextShared]_vars

\* ------------------------------------------------------------------------
\* Properties.  They are stated for engine 1; last, pre and pre2 tell which
\* operation led to the state and what it started from.
\* ------------------------------------------------------------------------

Range(seq) == {seq[k] : k \in 1..Len(seq)}

\* the number of places of seq that hold x
Count(seq, x) == Cardinality({k \in 1..Len(seq) : seq[k] = x})

Classes(seq) == [k \in 1..Len(seq) |-> seq[k].cls]

\* the mirror images of the tiles of seq about the x-axis, in order
Mirror(seq) == [k \in 1..Len(seq) |-> conjugate_tile(seq[k])]

\* the ensemble of engine 1 now, and before the last operation
Now == Ensemble(Store(1))

Before == pre.ensemble[1]

\* the centres of the tiles t and u are within TOL of each other
Near(t, u) == abs_lt_TOL(minus(centre(t), centre(u)))

\* the n-th member of the set S of numbers, in ascending order
Pick(S, n) == CHOOSE k \in S : Cardinality({j \in S : j < k}) = n - 1

\* The calls the claimed order of make_tiling prescribes for ngen and
\* config: the steps whose option is on, in the fixed order.
PrescribedCalls(ngen, config) ==
  LET stmts == <<[method |-> "remove_dupes", on |-> config["draw-rhombuses"]],
                 [method |-> "add_conjugate_elements", on |-> config["reflect-x"]],
                 [method |-> "remove_dupes", on |-> config["reflect-x"]],
                 [method |-> "rotate", on |-> config["rotate"] # 0],
                 [method |-> "flip_y", on |-> config["flip-y"]],
                 [method |-> "flip_x", on |-> config["flip-x"]]>>
      taken == SelectSeq(stmts, LAMBDA stmt : stmt.on)
  IN  [k \in 1..ngen |-> "inflate"] \o [k \in 1..Len(taken) |-> taken[k].method]

\* C1: one make_tiling() calls inflate exactly ngen times, then remove_dupes
\* iff 'draw-rhombuses', then add_conjugate_elements and remove_dupes iff
\* 'reflect-x', then rotate iff the angle is not 0, then flip_y iff 'flip-y',
\* then flip_x iff 'flip-x': these calls, in this order, and no others.
C1_BuildOrder ==
  last.op = "make_tiling" =>
    calls = PrescribedCalls(engine[1].ngen, engine[1].config)

C1_EveryStepTaken ==
  /\ last.op = "make_tiling"
  /\ calls = <<"inflate", "remove_dupes", "add_conjugate_elements",
               "remove_dupes", "rotate", "flip_y", "flip_x">>

\* the classes of the children of tiles of the given classes, in order
RECURSIVE ChildClasses(_)
ChildClasses(classes) ==
  IF classes = <<>> THEN <<>>
  ELSE (IF Head(classes) = "BtileL" THEN <<"BtileL", "BtileS", "BtileL">>
        ELSE <<"BtileS", "BtileL">>) \o ChildClasses(Tail(classes))

\* C2: inflate() replaces the ensemble: a Large tile by three children
\* Large, Small, Large and a Small tile by two children Small, Large, the
\* children of an earlier tile before those of a later one; l Large and s
\* Small tiles become 2l+s Large and l+s Small ones, 3l+2s in all, and no
\* parent tile remains in the ensemble.
C2_InflateReplaces ==
  last.op = "inflate" =>
    LET l == Count(Classes(Before), "BtileL")
        s == Count(Classes(Before), "BtileS")
    IN  /\ Classes(Now) = ChildClasses(Classes(Before))
        /\ Count(Classes(Now), "BtileL") = 2 * l + s
        /\ Count(Classes(Now), "BtileS") = l + s
        /\ Len(Now) = 3 * l + 2 * s
        /\ Range(Elements(Store(1))) \cap Range(pre.refs[1]) = {}

C2_InflatedBothClasses ==
  /\ last.op = "inflate"
  /\ Range(Classes(Before)) = {"BtileL", "BtileS"}

\* C3: remove_dupes() is idempotent: a second remove_dupes() right after a
\* first leaves the same tiles in the same order, and removes nothing.
C3_Idempotent ==
  (last.op = "remove_dupes" /\ pre.op = "remove_dupes") => Now = Before

\* C4: after a make_tiling() with 'draw-rhombuses' or 'reflect-x' set, no two
\* tiles of the ensemble have centres within TOL of each other.
C4_NoSharedCentre ==
  (/\ last.op = "make_tiling"
   /\ engine[1].config["draw-rhombuses"] \/ engine[1].config["reflect-x"])
    => \A j, k \in 1..Len(Now) : j < k => ~Near(Now[j], Now[k])

\* C5: an operation of one engine changes neither the ensemble (its tiles
\* and their vertices) nor the rendered output of the other engine, nor the
\* caller's list of seed tiles, also when both were seeded with that list.
C5_Independent ==
  last.inst \in Inst =>
    /\ \A j \in Inst \ {last.inst} :
         /\ Ensemble(Store(j)) = pre.ensemble[j]
         /\ svg[j] = pre.svg[j]
    /\ Snapshot.list = pre.list

\* C6: make_svg() changes neither the ensemble (count, order, classes,
\* vertices, tile objects) nor the configuration, and with
\* 'random-tile-colours' off and constant colours a second make_svg() right
\* after a first returns the same text.
C6_RenderPure ==
  last.op = "make_svg" =>
    /\ Now = Before
    /\ Elements(Store(1)) = pre.refs[1]
    /\ engine[1].config = pre.config[1]
    /\ (/\ pre.op = "make_svg"
        /\ ~engine[1].config["random-tile-colours"]
        /\ ~engine[1].config["Ltile-colour"].fn
        /\ ~engine[1].config["Stile-colour"].fn) => svg[1] = pre.svg[1]

C6_RenderedTwice ==
  /\ last.op = "make_svg"
  /\ pre.op = "make_svg"
  /\ ~engine[1].config["random-tile-colours"]
  /\ ~engine[1].config["Ltile-colour"].fn
  /\ svg[1].threw = "nothing"
  /\ Len(svg[1].svg.paths) >= 2

\* C7: with 'draw-arcs' on and 'draw-tiles' off make_svg() returns, for
\* either value of 'draw-rhombuses', a text with two arc paths for each tile
\* and no filled path.
C7_TwoArcsPerTile ==
  (/\ last.op = "make_svg"
   /\ engine[1].config["draw-arcs"]
   /\ ~engine[1].config["draw-tiles"])
    => /\ svg[1].threw = "nothing"
       /\ Len(svg[1].svg.paths) = 2 * Len(Now)
       /\ \A k \in 1..Len(svg[1].svg.paths) : svg[1].svg.paths[k].fill = "none"

\* add_conjugate_elements() and then flip_x() have run on an ensemble,
\* pre2.ensemble, that held the mirror image of each of its tiles
ReflectedThenFlipped ==
  /\ last.op = "flip_x"
  /\ pre.op = "add_conjugate_elements"
  /\ Range(Mirror(pre2.ensemble)) \subseteq Range(pre2.ensemble)

\* C8, as claimed: add_conjugate_elements() then flip_x() on a symmetric
\* ensemble leave the same tiles with the same multiplicity and count.
C8_SameMultiplicity ==
  ReflectedThenFlipped =>
    /\ Len(Now) = Len(pre2.ensemble)
    /\ \A t \in Range(Now) \cup Range(pre2.ensemble) :
         Count(Now, t) = Count(pre2.ensemble, t)

\* C8, amended: add_conjugate_elements() then flip_x() on a symmetric
\* ensemble leave the same distinct tiles, but twice as many tiles: the
\* mirror images of the original tiles followed by the original tiles, each
\* tile as often as it and its mirror image occurred together.
C8_SameTilesDoubled ==
  ReflectedThenFlipped =>
    /\ Range(Now) = Range(pre2.ensemble)
    /\ Len(Now) = 2 * Len(pre2.ensemble)
    /\ Now = Mirror(pre2.ensemble) \o pre2.ensemble
    /\ \A t \in Range(Now) :
         Count(Now, t) =
           Count(pre2.ensemble, t) + Count(pre2.ensemble, conjugate_tile(t))

C8_SymmetricPairDoubled ==
  /\ ReflectedThenFlipped
  /\ Len(pre2.ensemble) >= 2
  /\ \E k \in 1..Len(pre2.ensemble) :
       conjugate_tile(pre2.ensemble[k]) # pre2.ensemble[k]

\* make_tiling() has run with ngen = 0 and without rotation or flips
BuiltPlain ==
  /\ last.op = "make_tiling"
  /\ engine[1].ngen = 0
  /\ engine[1].config["rotate"] = 0
  /\ ~engine[1].config["flip-y"]
  /\ ~engine[1].config["flip-x"]

\* the tiles such a make_tiling() hands to remove_dupes: the seed tiles,
\* followed by their mirror images when 'reflect-x' is on
Submitted ==
  Before \o (IF engine[1].config["reflect-x"] THEN Mirror(Before) ELSE <<>>)

\* C9: with ngen = 0 and rotate, flip-y, flip-x off, every tile after
\* make_tiling() is a seed tile or (with 'reflect-x') the mirror image of
\* one, unaltered; every seed tile whose centre is within TOL of no other
\* centre is still present; and with 'draw-rhombuses' and 'reflect-x' off
\* too the ensemble is the seed list: same tiles, same order, same length.
C9_SeedsUnchanged ==
  BuiltPlain =>
    /\ Range(Now) \subseteq Range(Submitted)
    /\ \A k \in 1..Len(Before) :
         (\A j \in 1..Len(Submitted) : j # k => ~Near(Before[k], Submitted[j]))
           => Before[k] \in Range(Now)
    /\ (~engine[1].config["draw-rhombuses"] /\ ~engine[1].config["reflect-x"])
         => (Now = Before /\ Elements(Store(1)) = pre.refs[1])

C9_SeedsAndMirrors ==
  /\ BuiltPlain
  /\ engine[1].config["reflect-x"]
  /\ Len(Before) >= 2
  /\ Len(Now) > Len(Before)
  /\ Len(Now) < Len(Submitted)

\* the items k-1 and k of the sorted array have centres within TOL
NearBefore(arr, k) == abs_lt_TOL(minus(arr[k].center, arr[k - 1].center))

\* the places of the sorted array whose item is not within TOL of the item
\* just before it
FarPlaces(arr) == {k \in 1..Len(arr) : k = 1 \/ ~NearBefore(arr, k)}

\* items a, b, c at the places k-2, k-1, k: a is kept, |a-b| < TOL,
\* |b-c| < TOL and |a-c| >= TOL
Chain(arr, k) ==
  /\ k - 2 \in FarPlaces(arr)
  /\ NearBefore(arr, k - 1)
  /\ NearBefore(arr, k)
  /\ ~abs_lt_TOL(minus(arr[k].center, arr[k - 2].center))

\* C10, as claimed: the scan of remove_dupes() drops an item exactly when
\* its centre is within TOL of that of the item kept last; of a chain a, b,
\* c it keeps a, drops b and keeps c.
C10_AgainstLastKept ==
  last.op = "remove_dupes" =>
    /\ Elements(Store(1)) = scan_previous_kept(sorted)
    /\ \A k \in 3..Len(sorted) :
         Chain(sorted, k) =>
           /\ sorted[k - 2].element \in Range(Elements(Store(1)))
           /\ sorted[k - 1].element \notin Range(Elements(Store(1)))
           /\ sorted[k].element \in Range(Elements(Store(1)))

\* C10, amended: the scan of remove_dupes() drops an item exactly when its
\* centre is within TOL of that of the item just before it in the sorted
\* array, kept or not; of a chain a, b, c it keeps a and drops b and c.
C10_AgainstPreviousItem ==
  last.op = "remove_dupes" =>
    /\ Elements(Store(1)) =
         [n \in 1..Cardinality(FarPlaces(sorted)) |->
            sorted[Pick(FarPlaces(sorted), n)].element]
    /\ \A k \in 3..Len(sorted) :
         Chain(sorted, k) =>
           /\ sorted[k - 2].element \in Range(Elements(Store(1)))
           /\ sorted[k - 1].element \notin Range(Elements(Store(1)))
           /\ sorted[k].element \notin Range(Elements(Store(1)))

C10_ChainScanned ==
  /\ last.op = "remove_dupes"
  /\ \E k \in 3..Len(sorted) : Chain(sorted, k)

=============================================================================
